---- MODULE Spec2Model ----
(***************************************************************************)
(* One consensus node, node(nodeId, N, F, initialValue, isFaulty, ...) of  *)
(* src/nodes/node.ts, with the callers of its five routes and the peers    *)
(* that answer its broadcast as its environment.  The node owns its        *)
(* NodeState, its isRunning flag and its receivedMessages buffer.  A       *)
(* /start request that passes the guard leaves an asynchronous handler     *)
(* behind, which suspends at the 200 ms timer and at the Promise.all of    *)
(* broadcastVote; JavaScript runs everything between two suspension points *)
(* to completion, so every action below is one such segment.               *)
(***************************************************************************)
EXTENDS Integers, Sequences, FiniteSets, TLC

\* ---- bounds of the model ------------------------------------------------
MaxN == 3          \* largest network size explored
MaxBuffer == 2     \* callers stop posting once the buffer holds this many
MaxHandlers == 2   \* handlers of one node the fairness condition covers

\* ---- constants of the program -------------------------------------------
QuickRounds == 2    \* while (... && k < 2)
SlowLastRound == 10 \* while (... && k <= 10)

VARIABLES
    nodeId,           \* the ID of the node
    N,                \* total number of nodes
    F,                \* number of faulty nodes
    initialValue,     \* the initial consensus value
    isFaulty,         \* true if the node is faulty
    currentState,     \* NodeState
    isRunning,        \* tracks if the consensus algorithm is running
    receivedMessages, \* the bodies pushed by /message, in arrival order
    handlers,         \* the /start handlers that passed the guard, in order
    sent,             \* every request broadcastVote has written, in order
    res               \* the last response the node's server has sent

vars == <<nodeId, N, F, initialValue, isFaulty, currentState, isRunning,
          receivedMessages, handlers, sent, res>>

params == <<nodeId, N, F, initialValue, isFaulty>>

\* x, decided and k are "T | null": Null is null, Some(v) a present value.
Null == <<>>
Some(v) == <<v>>

\* ToNumber of a nullable number, as the comparisons and the ++ of the loop
\* apply it (null counts as 0).
Num(v) == IF v = Null THEN 0 ELSE v[1]

Value == {0, 1}

\* The bodies callers post to /message: a vote as a peer sends it and a body
\* that is no vote (the route applies no validation).
Bodies ==
    { [type |-> "vote", value |-> Some(1), round |-> Some(0)],
      [type |-> "junk", value |-> Null, round |-> Null] }

InitialNodeState(faulty, value) ==
    [ killed  |-> FALSE,
      x       |-> IF faulty THEN Null ELSE Some(value),
      decided |-> IF faulty THEN Null ELSE Some(FALSE),
      k       |-> IF faulty THEN Null ELSE Some(0) ]

NoResponse == [op |-> "none", status |-> 0, body |-> "none"]

Response(op, status, body) == [op |-> op, status |-> status, body |-> body]

Init ==
    /\ N \in 1 .. MaxN
    /\ F \in 0 .. N
    /\ nodeId \in 0 .. (N - 1)
    /\ initialValue \in Value
    /\ isFaulty \in BOOLEAN
    /\ currentState = InitialNodeState(isFaulty, initialValue)
    /\ isRunning = FALSE
    /\ receivedMessages = <<>>
    /\ handlers = <<>>
    /\ sent = <<>>
    /\ res = NoResponse

\* ---- GET /status ---------------------------------------------------------
\* Variant: a stopped node reports itself unhealthy.
StatusResponse_Killed ==
    IF isFaulty \/ currentState.killed
    THEN Response("status", 500, "faulty")
    ELSE Response("status", 200, "live")

StatusResponse ==
    IF isFaulty THEN Response("status", 500, "faulty")
                ELSE Response("status", 200, "live")

Status ==
    /\ res' = StatusResponse
    /\ UNCHANGED <<params, currentState, isRunning, receivedMessages,
                   handlers, sent>>

\* ---- GET /getState -------------------------------------------------------
\* Variant: the mask of a faulty node is a constant object.
GetStateResponse_ConstantMask ==
    IF isFaulty
    THEN Response("getState", 200,
                  [ killed  |-> FALSE,
                    x       |-> Null,
                    decided |-> Null,
                    k       |-> Null ])
    ELSE Response("getState", 200, currentState)

GetStateResponse ==
    IF isFaulty
    THEN Response("getState", 200,
                  [ killed  |-> currentState.killed,
                    x       |-> Null,
                    decided |-> Null,
                    k       |-> Null ])
    ELSE Response("getState", 200, currentState)

GetState ==
    /\ res' = GetStateResponse
    /\ UNCHANGED <<params, currentState, isRunning, receivedMessages,
                   handlers, sent>>

\* ---- POST /message -------------------------------------------------------
\* Variant: the body is pushed before the killed check.
MessageBuffer_Always(body) == Append(receivedMessages, body)

\* Variant: the body is put at the front of the buffer.
MessageBuffer_Prepend(body) ==
    IF currentState.killed
    THEN receivedMessages
    ELSE <<body>> \o receivedMessages

MessageBuffer(body) ==
    IF currentState.killed
    THEN receivedMessages
    ELSE Append(receivedMessages, body)

MessageResponse ==
    IF currentState.killed
    THEN Response("message", 503, "Node is stopped")
    ELSE Response("message", 200, "Message received")

\* A peer's broadcast or any other caller posts a body.
Message(body) ==
    /\ currentState.killed \/ Len(receivedMessages) < MaxBuffer
    /\ receivedMessages' = MessageBuffer(body)
    /\ res' = MessageResponse
    /\ UNCHANGED <<params, currentState, isRunning, handlers, sent>>

\* ---- the round loop of GET /start ----------------------------------------
ConsensusPossible == 2 * F < N

\* Variant: the while condition does not test killed.
LoopCondition_IgnoresKilled(st, running) ==
    /\ running
    /\ IF ConsensusPossible THEN Num(st.k) < QuickRounds
                            ELSE Num(st.k) <= SlowLastRound

\* Variant: the second branch stops one round early (k < 10).
LoopCondition_Strict(st, running) ==
    /\ running
    /\ ~ st.killed
    /\ IF ConsensusPossible THEN Num(st.k) < QuickRounds
                            ELSE Num(st.k) < SlowLastRound

\* The while condition of the branch, on the node state st and the flag.
LoopCondition(st, running) ==
    /\ running
    /\ ~ st.killed
    /\ IF ConsensusPossible THEN Num(st.k) < QuickRounds
                            ELSE Num(st.k) <= SlowLastRound

\* Variant: finality of the first branch leaves x as it is.
ForceFinality_KeepsX(st) ==
    IF ConsensusPossible
    THEN [st EXCEPT !.decided = Some(TRUE)]
    ELSE [st EXCEPT !.decided = Some(FALSE)]

\* Variant: finality writes a fresh state object.
ForceFinality_Fresh(st) ==
    IF ConsensusPossible
    THEN [killed |-> FALSE, x |-> Some(1), decided |-> Some(TRUE), k |-> st.k]
    ELSE [killed |-> FALSE, x |-> st.x, decided |-> Some(FALSE), k |-> st.k]

\* The statements that follow the while loop of the branch.
ForceFinality(st) ==
    IF ConsensusPossible
    THEN [st EXCEPT !.x = Some(1), !.decided = Some(TRUE)]
    ELSE [st EXCEPT !.decided = Some(FALSE)]

TimerHandler == [pc |-> "timer", pending |-> {}]
ReturnedHandler == [pc |-> "returned", pending |-> {}]

\* A handler reaches the top of the while loop with node state st: it either
\* suspends at the timer, or leaves the loop, forces finality and returns.
\* <<node state, handler>>
LoopTop(st, running) ==
    IF LoopCondition(st, running)
    THEN <<st, TimerHandler>>
    ELSE <<ForceFinality(st), ReturnedHandler>>

\* A handler resumes after await broadcastVote(...): k++, then the loop top.
AfterBroadcast(st, running) ==
    LoopTop([st EXCEPT !.k = Some(Num(st.k) + 1)], running)

\* ---- GET /start ----------------------------------------------------------
\* Variant: the guard forgets the faulty flag.
StartRefused_RunningOnly == isRunning

\* Variant: the guard forgets the running flag.
StartRefused_FaultyOnly == isFaulty

\* Variant: the flag is taken to be cleared when the handler returns.
StartRefused_WhileSuspended ==
    isFaulty \/ \E h \in DOMAIN handlers : handlers[h].pc # "returned"

StartRefused == isFaulty \/ isRunning

Start ==
    IF StartRefused
    THEN /\ res' = Response("start", 400, "Cannot start")
         /\ UNCHANGED <<params, currentState, isRunning, receivedMessages,
                        handlers, sent>>
    ELSE LET next == LoopTop(currentState, TRUE) IN
         /\ isRunning' = TRUE
         /\ res' = Response("start", 200, "Consensus algorithm started")
         /\ currentState' = next[1]
         /\ handlers' = Append(handlers, next[2])
         /\ UNCHANGED <<params, receivedMessages, sent>>

\* ---- GET /stop -----------------------------------------------------------
\* Variant: the guard tests the running flag instead of killed.
StopRefused_NotRunning == ~ isRunning

StopRefused == currentState.killed

Stop ==
    IF StopRefused
    THEN /\ res' = Response("stop", 400, "Node already stopped")
         /\ UNCHANGED <<params, currentState, isRunning, receivedMessages,
                        handlers, sent>>
    ELSE /\ isRunning' = FALSE
         /\ currentState' = [currentState EXCEPT !.killed = TRUE]
         /\ res' = Response("stop", 200, "Consensus algorithm stopped")
         /\ UNCHANGED <<params, receivedMessages, handlers, sent>>

\* ---- broadcastVote -------------------------------------------------------
\* for (let i = 0; i < N; i++) if (i !== nodeId): the peers, in loop order.
\* Variant: the loop over the nodes does not skip the node itself.
RECURSIVE PeersFrom_All(_)
PeersFrom_All(i) ==
    IF i >= N THEN <<>> ELSE <<i>> \o PeersFrom_All(i + 1)

RECURSIVE PeersFrom(_)
PeersFrom(i) ==
    IF i >= N THEN <<>>
    ELSE IF i # nodeId THEN <<i>> \o PeersFrom(i + 1)
    ELSE PeersFrom(i + 1)

Peers == PeersFrom(0)

Vote(value, round) == [type |-> "vote", value |-> value, round |-> round]

\* The requests one call of broadcastVote(value, round) writes.
Requests(value, round) ==
    [j \in DOMAIN Peers |-> [to |-> Peers[j], body |-> Vote(value, round)]]

\* ---- the timer of a round fires -------------------------------------------
\* Handler h resumes from the timer and calls broadcastVote(x, k); with no
\* peer Promise.all([]) resolves at once and the handler goes on.
TimerFires(h) ==
    /\ h \in DOMAIN handlers
    /\ handlers[h].pc = "timer"
    /\ sent' = sent \o Requests(currentState.x, currentState.k)
    /\ IF Peers = <<>>
       THEN LET next == AfterBroadcast(currentState, isRunning) IN
            /\ currentState' = next[1]
            /\ handlers' = [handlers EXCEPT ![h] = next[2]]
       ELSE /\ handlers' = [handlers EXCEPT ![h] =
                  [ pc      |-> "broadcast",
                    pending |-> {Peers[j] : j \in DOMAIN Peers} ]]
            /\ UNCHANGED currentState
    /\ UNCHANGED <<params, isRunning, receivedMessages, res>>

\* ---- one request of a broadcast settles ------------------------------------
\* What becomes of a request: the peer answers 200 "Message received", the
\* peer is stopped and answers 503, or the request fails (peer unreachable).
Outcomes == {"received", "stopped", "error"}

\* Variant: no error listener resolves the promise of a failed request.
Resolves_ErrorUnhandled(outcome) == outcome \in {"received", "stopped"}

\* The promise of a request with this outcome resolves: on the end of any
\* response, and on the error of the request.
Resolves(outcome) ==
    \/ outcome \in {"received", "stopped"}
    \/ outcome = "error"

\* Variant: the handler resumes on the first promise that resolves.
AllResolved_First(pending, p) == p \in pending

\* Promise.all: the promise of p is the last one pending.
AllResolved(pending, p) == pending = {p}

\* The request to peer p comes to its outcome.  When its promise resolves and
\* was the last pending one, Promise.all resolves and handler h resumes; a
\* promise that never resolves would keep the handler waiting for ever.
Settle(h, p) ==
    /\ h \in DOMAIN handlers
    /\ handlers[h].pc = "broadcast"
    /\ p \in handlers[h].pending
    /\ \E outcome \in Outcomes :
         IF ~ Resolves(outcome)
         THEN /\ handlers' = [handlers EXCEPT ![h].pc = "stalled"]
              /\ UNCHANGED currentState
         ELSE IF AllResolved(handlers[h].pending, p)
         THEN LET next == AfterBroadcast(currentState, isRunning) IN
              /\ currentState' = next[1]
              /\ handlers' = [handlers EXCEPT ![h] = next[2]]
         ELSE /\ handlers' = [handlers EXCEPT ![h].pending = @ \ {p}]
              /\ UNCHANGED currentState
    /\ UNCHANGED <<params, isRunning, receivedMessages, sent, res>>

\* ---- the system ------------------------------------------------------------
Next ==
    \/ Status
    \/ GetState
    \/ \E body \in Bodies : Message(body)
    \/ Start
    \/ Stop
    \/ \E h \in DOMAIN handlers : TimerFires(h)
    \/ \E h \in DOMAIN handlers : \E p \in handlers[h].pending : Settle(h, p)

Spec == Init /\ [][Next]_vars

\* The requests and steps that touch the round loop or read the state: all of
\* Next but the posts to /message, which only grow a buffer no handler reads.
RunNext ==
    \/ Status
    \/ GetState
    \/ Start
    \/ Stop
    \/ \E h \in DOMAIN handlers : TimerFires(h)
    \/ \E h \in DOMAIN handlers : \E p \in handlers[h].pending : Settle(h, p)

\* The timer fires after 200 ms and every request ends or fails.
Fairness ==
    /\ \A h \in 1 .. MaxHandlers : WF_vars(TimerFires(h))
    /\ \A h \in 1 .. MaxHandlers :
         \A p \in 0 .. (MaxN - 1) : WF_vars(Settle(h, p))

FairSpec == Init /\ [][RunNext]_vars /\ Fairness

\* ---- properties -------------------------------------------------------------
\* A /start request has passed the guard.
Started == handlers # <<>>

\* The handler of the first successful /start has returned.
Completed == Started /\ handlers[1].pc = "returned"

\* Some handler is suspended inside the round loop.
RunInProgress == \E h \in DOMAIN handlers : handlers[h].pc # "returned"

QuickFinal ==
    /\ currentState.decided = Some(TRUE)
    /\ currentState.x = Some(1)
    /\ currentState.k = Some(2)
    /\ currentState.killed = FALSE

SlowFinal ==
    /\ currentState.decided = Some(FALSE)
    /\ currentState.k = Some(11)
    /\ currentState.killed = FALSE
    /\ currentState.x = Some(initialValue)
    /\ Len(sent) = 11 * (N - 1)
    /\ \A r \in 0 .. 10 :
         Cardinality({j \in DOMAIN sent : sent[j].body.round = Some(r)})
           = N - 1

\* C1: a non-faulty node with 2F < N that was started and is never stopped
\* eventually completes its run, and whenever its run has completed without
\* a stop, decided = true, x = 1, k = 2 and killed = false.
C1_QuickRunDecides ==
    /\ [](ConsensusPossible /\ Completed /\ ~ currentState.killed
            => QuickFinal)
    /\ (ConsensusPossible /\ Started)
         ~> (currentState.killed \/ (Completed /\ QuickFinal))

C1_Witness ==
    /\ ConsensusPossible
    /\ initialValue = 0
    /\ Completed
    /\ QuickFinal

\* C2: a non-faulty node with 2F >= N that was started and is never stopped
\* eventually completes its run after the rounds 0 .. 10, and whenever its
\* run has completed without a stop, decided = false, k = 11, killed = false
\* and x is the initial value.
C2_SlowRunFails ==
    /\ [](~ ConsensusPossible /\ Completed /\ ~ currentState.killed
            => SlowFinal)
    /\ (~ ConsensusPossible /\ Started)
         ~> (currentState.killed \/ (Completed /\ SlowFinal))

C2_Witness ==
    /\ ~ ConsensusPossible
    /\ initialValue = 1
    /\ N = 3
    /\ Completed
    /\ SlowFinal

\* A step of the round loop of handler h.
LoopStep(h) ==
    \/ TimerFires(h)
    \/ \E p \in handlers[h].pending : Settle(h, p)

\* C3: once a running non-faulty node has been stopped, the steps of its
\* round loop do not force finality: they do not set decided to true, do not
\* write x, and killed stays true.
C3_StopPreventsFinality ==
    [][\A h \in DOMAIN handlers :
         (~ isFaulty /\ currentState.killed /\ LoopStep(h))
           => /\ currentState'.decided = Some(TRUE)
                   => currentState.decided = Some(TRUE)
              /\ currentState'.x = currentState.x
              /\ currentState'.killed]_vars

\* C4: a stop request answers 200 exactly when killed is false and then sets
\* killed; when killed is true it answers 400 "Node already stopped" and
\* changes nothing else.  After any stop request killed is true, so of two
\* consecutive stop requests the second fails.
C4_StopOnce ==
    /\ [](res.op = "stop" => currentState.killed)
    /\ [][Stop =>
            /\ (res'.status = 200) <=> ~ currentState.killed
            /\ ~ currentState.killed
                 => /\ currentState'.killed
                    /\ res' = Response("stop", 200,
                                       "Consensus algorithm stopped")
            /\ currentState.killed
                 => /\ res' = Response("stop", 400, "Node already stopped")
                    /\ UNCHANGED <<params, currentState, isRunning,
                                   receivedMessages, handlers, sent>>]_vars

C4_Witness ==
    /\ res = Response("stop", 400, "Node already stopped")
    /\ currentState.killed
    /\ RunInProgress

\* C5: killed is false at construction and never goes from true to false.
C5_KilledMonotonic ==
    /\ ~ currentState.killed
    /\ [][currentState.killed => currentState'.killed]_vars

C5_Witness ==
    /\ currentState.killed
    /\ Len(handlers) = 2
    /\ ~ RunInProgress

\* C6: a start request to a non-faulty node whose run is in progress (started,
\* not stopped, loop not yet left) answers 400 "Cannot start", adds no handler
\* and changes no state; the first start request to a non-faulty node that is
\* not running answers 200.
C6_StartWhileRunningFails ==
    [][Start =>
         /\ (~ isFaulty /\ ~ currentState.killed /\ RunInProgress)
              => /\ res' = Response("start", 400, "Cannot start")
                 /\ UNCHANGED <<params, currentState, isRunning,
                                receivedMessages, handlers, sent>>
         /\ (~ isFaulty /\ ~ isRunning /\ ~ Started)
              => /\ res' = Response("start", 200,
                                    "Consensus algorithm started")
                 /\ Len(handlers') = 1
                 /\ isRunning']_vars

C6_Witness ==
    /\ res = Response("start", 400, "Cannot start")
    /\ ~ isFaulty
    /\ ~ currentState.killed
    /\ Len(handlers) = 1
    /\ handlers[1].pc = "broadcast"

\* C7: a faulty node never holds x, decided or k, never has a handler in its
\* round loop, never writes a vote request, and answers every start request
\* with 400 without changing its state.
C7_FaultyNeverRuns ==
    /\ [](isFaulty =>
            /\ currentState.x = Null
            /\ currentState.decided = Null
            /\ currentState.k = Null
            /\ handlers = <<>>
            /\ sent = <<>>
            /\ ~ isRunning
            /\ res.op = "start" => res = Response("start", 400, "Cannot start"))
    /\ [][(isFaulty /\ Start) =>
            UNCHANGED <<params, currentState, isRunning, receivedMessages,
                        handlers, sent>>]_vars

C7_Witness ==
    /\ isFaulty
    /\ res = Response("start", 400, "Cannot start")
    /\ currentState.killed
    /\ receivedMessages # <<>>

\* C8: a state snapshot request changes nothing but the response; for a
\* faulty node the response carries x, decided and k as null and killed as it
\* currently is, for a non-faulty node it is the current NodeState.
C8_SnapshotMasksFaulty ==
    [][GetState =>
         /\ UNCHANGED <<params, currentState, isRunning, receivedMessages,
                        handlers, sent>>
         /\ res'.op = "getState"
         /\ res'.status = 200
         /\ res'.body.killed = currentState.killed
         /\ isFaulty => /\ res'.body.x = Null
                        /\ res'.body.decided = Null
                        /\ res'.body.k = Null
         /\ ~ isFaulty => res'.body = currentState]_vars

C8_Witness ==
    /\ res.op = "getState"
    /\ isFaulty
    /\ res.body = [killed |-> TRUE, x |-> Null, decided |-> Null, k |-> Null]

\* C9: a status request answers 500 "faulty" when the node is faulty and
\* 200 "live" otherwise, whatever the rest of the state is, and changes
\* nothing but the response.
C9_StatusOnlyFaulty ==
    [][Status =>
         /\ UNCHANGED <<params, currentState, isRunning, receivedMessages,
                        handlers, sent>>
         /\ isFaulty => res' = Response("status", 500, "faulty")
         /\ ~ isFaulty => res' = Response("status", 200, "live")]_vars

C9_Witness ==
    /\ res = Response("status", 200, "live")
    /\ currentState.killed
    /\ \E h \in DOMAIN handlers : handlers[h].pc = "broadcast"

\* C10: a message posted while killed is true, be it a peer's vote or any
\* other body, is answered 503 "Node is stopped" and leaves the buffer as it
\* was.
C10_KilledRejectsMessage ==
    [][\A body \in Bodies :
         (currentState.killed /\ Message(body))
           => /\ res' = Response("message", 503, "Node is stopped")
              /\ receivedMessages' = receivedMessages]_vars

C10_Witness ==
    /\ res = Response("message", 503, "Node is stopped")
    /\ currentState.killed
    /\ Len(receivedMessages) = 1

\* C11: while the node is not killed every posted body is accepted and put at
\* the end of the buffer, and nothing else ever changes the buffer: a step
\* either leaves it as it is or is such an append, so the buffer is the
\* sequence of the accepted bodies in arrival order.
C11_BufferKeepsArrivalOrder ==
    /\ [][\A body \in Bodies :
            (~ currentState.killed /\ Message(body))
              => /\ receivedMessages' = Append(receivedMessages, body)
                 /\ res' = Response("message", 200, "Message received")]_vars
    /\ [][\/ receivedMessages' = receivedMessages
          \/ /\ ~ currentState.killed
             /\ res' = Response("message", 200, "Message received")
             /\ \E body \in Bodies :
                  receivedMessages' = Append(receivedMessages, body)]_vars

C11_Witness ==
    /\ Len(receivedMessages) = 2
    /\ receivedMessages[1].type = "junk"
    /\ receivedMessages[2].type = "vote"
    /\ Completed
    /\ currentState.killed

\* C12: the broadcast of a round writes exactly one vote request to every
\* node id of 0 .. N-1 but the sender's, N-1 in all, each carrying x and k as
\* they are when the broadcast starts; nothing else writes a request, and
\* while the broadcast is outstanding k is still the round the votes carry.
C12_OneVotePerPeer ==
    /\ [][\A h \in DOMAIN handlers :
            TimerFires(h) =>
              LET new == SubSeq(sent', Len(sent) + 1, Len(sent')) IN
              /\ SubSeq(sent', 1, Len(sent)) = sent
              /\ Len(new) = N - 1
              /\ \A i \in (0 .. (N - 1)) \ {nodeId} :
                   Cardinality({j \in DOMAIN new : new[j].to = i}) = 1
              /\ \A j \in DOMAIN new :
                   /\ new[j].to # nodeId
                   /\ new[j].body = [ type  |-> "vote",
                                      value |-> currentState.x,
                                      round |-> currentState.k ]]_vars
    /\ [][sent' # sent => \E h \in DOMAIN handlers : TimerFires(h)]_vars
    /\ [](\A h \in DOMAIN handlers :
            handlers[h].pc = "broadcast" =>
              /\ Len(sent) >= N - 1
              /\ \A j \in (Len(sent) - (N - 1) + 1) .. Len(sent) :
                   sent[j].body.round = currentState.k)

C12_Witness ==
    /\ N = 3
    /\ nodeId = 1
    /\ Len(sent) = 4
    /\ sent[3].to = 0
    /\ sent[4].to = 2
    /\ sent[3].body = [type |-> "vote", value |-> Some(0), round |-> Some(1)]
    /\ currentState.k = Some(1)
    /\ handlers[1].pc = "broadcast"

\* The forced-finality state of the branch.
FinalityReached ==
    IF ConsensusPossible
    THEN currentState.decided = Some(TRUE) /\ currentState.x = Some(1)
    ELSE currentState.decided = Some(FALSE) /\ currentState.k = Some(11)

\* Handler h awaits the broadcast of a round.
InBroadcast(h) ==
    IF h \in DOMAIN handlers THEN handlers[h].pc = "broadcast" ELSE FALSE

\* C13: whatever the peers answer (received, stopped, or no answer at all),
\* no handler is ever left waiting on a request: every broadcast is left
\* again, and a started node that is not stopped eventually completes its
\* run in the forced-finality state of its branch.
C13_BroadcastNeverStalls ==
    /\ [](\A h \in DOMAIN handlers :
            handlers[h].pc \in {"timer", "broadcast", "returned"})
    /\ \A h \in 1 .. MaxHandlers : InBroadcast(h) ~> ~ InBroadcast(h)
    /\ Started ~> (currentState.killed \/ (Completed /\ FinalityReached))

C13_Witness ==
    /\ N = 3
    /\ Completed
    /\ ~ currentState.killed
    /\ FinalityReached
    /\ Len(sent) = 4

\* C14: k changes only by +1, and only in the step in which the last
\* outstanding request of the round's broadcast settles: before the step at
\* most that one request is outstanding, after it none is, and all N-1
\* requests of the round have been written.  A handler awaits the broadcast
\* exactly while a request of it is outstanding.
C14_AdvanceAfterAllSettled ==
    /\ [][currentState'.k # currentState.k =>
            /\ Num(currentState'.k) = Num(currentState.k) + 1
            /\ \A h \in DOMAIN handlers :
                 Cardinality(handlers[h].pending) <= 1
            /\ \A h \in DOMAIN handlers' : handlers'[h].pending = {}
            /\ Cardinality({j \in DOMAIN sent' :
                              sent'[j].body.round = currentState.k})
                 >= N - 1]_vars
    /\ [](\A h \in DOMAIN handlers :
            handlers[h].pc = "broadcast" <=> handlers[h].pending # {})

C14_Witness ==
    /\ N = 3
    /\ currentState.k = Some(1)
    /\ Len(sent) = 2
    /\ handlers[1].pc = "timer"

\* C15: once killed is true, a step of the round loop changes nothing of the
\* node state (no k++, no write of x or decided) and writes no vote request.
C15_StoppedLoopMutatesNothing ==
    [][\A h \in DOMAIN handlers :
         (currentState.killed /\ LoopStep(h))
           => /\ currentState' = currentState
              /\ sent' = sent]_vars

\* C16: once a handler has left the loop and made the forced-finality write,
\* k, x and decided never change again.
C16_FinalityIsTerminal ==
    [][(\E h \in DOMAIN handlers : handlers[h].pc = "returned")
         => /\ currentState'.k = currentState.k
            /\ currentState'.x = currentState.x
            /\ currentState'.decided = currentState.decided]_vars

\* The bound the branch puts on k.
LastK == IF ConsensusPossible THEN 2 ELSE 11

\* C17: on a non-faulty node k is always within 0 .. 2 when 2F < N and within
\* 0 .. 11 otherwise, every change of k is +1, and at most one handler is
\* inside the round loop.
C17_RoundCounterBounded ==
    /\ [](~ isFaulty =>
            /\ currentState.k # Null
            /\ Num(currentState.k) \in 0 .. LastK
            /\ Cardinality({h \in DOMAIN handlers :
                              handlers[h].pc # "returned"}) <= 1)
    /\ [][currentState'.k # currentState.k
            => Num(currentState'.k) = Num(currentState.k) + 1]_vars

C17_Witness ==
    /\ Len(handlers) = 2
    /\ handlers[1].pc = "broadcast"
    /\ handlers[2].pc = "returned"
    /\ currentState.k = Some(1)
    /\ currentState.killed

\* C18: a start request to a node whose killed flag is true leaves x, decided
\* and k as they are.
C18_StartAfterStopWritesNothing ==
    [][(currentState.killed /\ Start)
         => /\ currentState'.x = currentState.x
            /\ currentState'.decided = currentState.decided
            /\ currentState'.k = currentState.k]_vars

\* C19: after a run has completed on a node that is not killed the running
\* flag is still set and a start request answers 400 "Cannot start" and
\* changes nothing; a node that is not killed has had at most one handler in
\* its round loop.
C19_NoRestartAfterFinality ==
    /\ []((Completed /\ ~ currentState.killed) => isRunning)
    /\ [](~ currentState.killed => Len(handlers) <= 1)
    /\ [][(Completed /\ ~ currentState.killed /\ Start)
            => /\ res' = Response("start", 400, "Cannot start")
               /\ UNCHANGED <<params, currentState, isRunning,
                              receivedMessages, handlers, sent>>]_vars

C19_Witness ==
    /\ res = Response("start", 400, "Cannot start")
    /\ Completed
    /\ ~ currentState.killed
    /\ FinalityReached
    /\ ~ ConsensusPossible

\* The rounds of the requests written to one peer are 0, 1, 2, ... in order.
RoundsInOrder ==
    \A j \in DOMAIN sent :
      sent[j].body.round =
        Some(Cardinality({i \in 1 .. (j - 1) : sent[i].to = sent[j].to}))

\* C20: every vote request written carries the initial value, and the rounds
\* of the requests to one peer are 0, 1, 2, ... with none repeated or
\* skipped.
C20_VotesCarryInitialValue ==
    /\ \A j \in DOMAIN sent : sent[j].body.value = Some(initialValue)
    /\ RoundsInOrder

====
